---- MODULE Spec2Model ----
(***************************************************************************)
(* git-fleximod: install / update / status of the components declared in   *)
(* a .gitmodules manifest (src/git-fleximod.py).                           *)
(*                                                                         *)
(* The model follows one working tree through a sequence of runs of the    *)
(* tool.  A run is one call of _main_func with a resolved action; it       *)
(* walks the manifest with an explicit call stack (submodules_install ->   *)
(* submodule_checkout -> submodules_install is a recursion).  A run ends   *)
(* when the stack is empty (outcome "ok") or when an exception unwinds it  *)
(* (outcome "failed"); the files it wrote stay on disk for the next run.   *)
(***************************************************************************)
EXTENDS Naturals, Sequences, FiniteSets

\* ---------------------------------------------------------------- bounds
MaxRuns == 2        \* runs of the tool on the same working tree
MaxFaults == 1      \* interruptions, failing external steps and bad manifest
                    \* files, over all runs

\* ------------------------------------------------------- manifest values
\* esmrequired tokens are Python strings; they are kept as character
\* sequences because the nested call tests them with substring `in`.
TT == <<"T", ":", "T">>
TF == <<"T", ":", "F">>
IT == <<"I", ":", "T">>
Empty == <<>>
Tokens == {TT, TF, IT, Empty}

NoTag == "notag"                 \* esmtag not set in the section
Tags == {"v1", NoTag}
Descriptions == {"v1", "v2"}     \* what `git describe` can print

\* The manifest tree: the root manifest declares components 1 and 2, the
\* repository of component 1 carries a nested .gitmodules declaring 3.
Comps == {1, 2, 3}
RootManifest == 0
Sections(man) == IF man = RootManifest THEN <<1, 2>> ELSE <<3>>
HasManifest(c) == c = 1
\* the repository a component is declared in (0 is the top-level one)
Container(c) == IF c = 3 THEN 1 ELSE 0
\* the manifest files: the root one and those of the components that have one
ManifestFiles == {RootManifest} \cup {c \in Comps : HasManifest(c)}

VARIABLES
    esmrequired,  \* manifest: component -> requirement token
    esmsparse,    \* manifest: component -> TRUE iff esmsparse is set
    esmtag,       \* manifest: component -> declared revision or NoTag
    manifestState,\* per manifest file: "ok" or "bad" (absent, or a section
                  \* without path or url); "unread" until first read
    pinned,       \* description of the commits the containing repositories
                  \* record for their submodules ("unknown" until first read)
    hasGitAttr,   \* whether the manifest reader object answers to .git(...):
                  \* "yes" or "no" ("unknown" until first called)
    fs,           \* working tree and metadata store, per component
    rootNewbranch,\* top-level repository has a remote named newbranch
    rootHead,     \* revision checked out in the top-level repository
    runs,         \* runs started so far
    faults,       \* interruptions / external failures so far
    flags,        \* --status and --update of the current run
    action,       \* action of the current run
    optional,     \* --optional of the current run
    stack,        \* call stack of the current run
    outcome,      \* "idle", "running", "ok", "failed"
    ops,          \* this run: component -> VCS operations invoked for it
    strategy,     \* this run: component -> checkout strategies invoked
    out,          \* this run: lines printed, in order
    failedAt,     \* this run: component being processed when it failed, or 0
    failKind,     \* this run: "none", "fault" (interruption or external
                  \* failure), "vcs", "python", "attribute" (no such
                  \* attribute), "verify", "manifest" or "unrecognized"
    visited,      \* this run: components whose loop iteration has begun
    sparseDone,   \* history: sparse checkouts that ran to their success line
    doneAtStart   \* sparseDone as it was when the current run started

manifestVars == <<esmrequired, esmsparse, esmtag, manifestState, pinned,
                  hasGitAttr>>
diskVars == <<fs, rootNewbranch, rootHead>>
runVars == <<runs, faults, flags, action, optional, stack, outcome, ops, strategy, out,
             failedAt, failKind, visited, sparseDone, doneAtStart>>
vars == <<manifestVars, diskVars, runVars>>

\* ------------------------------------------------------------ file system
\* dir       <path> is a directory
\* dotgit    <path>/.git: "none", "dir" (own metadata) or "file" (pointer)
\* wtOrigin  the metadata in <path>/.git (a directory) has a remote origin
\* store     <toplevel>/.git/modules/<name>: "none", "meta" (a metadata
\*           directory) or "nested" (a metadata directory with a second
\*           .git directory moved inside it)
\* stOrigin  the metadata in the store entry has a remote origin
\* gitsparse <toplevel>/.git/modules/<name>/info/sparse-checkout is a file
\* fetched   the repository reached from <path> has fetched objects
\* head      description of the revision checked out at <path>, or "none"
\* base      the directory <path> was created under, or "none"
Fresh ==
    [dir |-> FALSE, dotgit |-> "none", wtOrigin |-> FALSE, store |-> "none",
     stOrigin |-> FALSE, gitsparse |-> FALSE, fetched |-> FALSE, head |-> "none",
     base |-> "none"]

\* The directories a relative <path> is resolved against: the working
\* directory of the process, which is --path by default and the top level of
\* the repository, and the root directory handed to the functions, which is
\* --path for the root manifest and <root>/<path of the holder> for a nested
\* one.
WorkDir == "top"
RootDir(man) == IF man = RootManifest THEN "top" ELSE "top/holder"

NoStrategy == {}
NoOps == {}
Op(name, repo) == [op |-> name, repo |-> repo]

\* ----------------------------------------------------- Python membership
\* a is a contiguous part of b (the `in` of two Python strings)
IsSubstring(a, b) ==
    \E i \in 1..(Len(b) + 1) :
        /\ i + Len(a) - 1 <= Len(b)
        /\ SubSeq(b, i, i + Len(a) - 1) = a

Tuple(items) == [kind |-> "tuple", items |-> items, chars |-> <<>>]
Str(chars) == [kind |-> "str", items |-> <<>>, chars |-> chars]

\* x in container: element equality for a tuple, substring for a string
PyIn(x, container) ==
    IF container.kind = "tuple"
    THEN \E i \in DOMAIN container.items : container.items[i] = x
    ELSE IsSubstring(x, container.chars)

\* commandline_arguments: the accepted requirement classes
EsmrequiredArgSwapped(opt) ==
    IF opt THEN Tuple(<<TT, IT>>) ELSE Tuple(<<TT, TF, IT>>)
EsmrequiredArg(opt) ==
    IF opt THEN Tuple(<<TT, TF, IT>>) ELSE Tuple(<<TT, IT>>)

\* commandline_arguments: the resolved action
ResolveActionUpdateFirst(status, update) ==
    IF update THEN "update" ELSE IF status THEN "status" ELSE "install"
ResolveAction(status, update) ==
    IF status THEN "status" ELSE IF update THEN "update" ELSE "install"

\* submodule_checkout passes ("I:T"): parentheses without a comma, a string
NestedRequired == Str(IT)

\* submodules_install: the gate and the strategy
Accepted(tok, requiredlist) == PyIn(tok, requiredlist)
SkipNotice(tok) == IsSubstring(TF, tok)
SelectStrategyFlipped(sparse) == IF sparse THEN "full" ELSE "sparse"
SelectStrategy(sparse) == IF sparse THEN "sparse" ELSE "full"

\* submodules_status: the report line for (declared tag, described tag)
StatusLineNoTagTest(tag, atag) ==
    IF atag /= tag THEN "outofsync"
    ELSE IF tag /= NoTag THEN "attag"
    ELSE "notag"
StatusLine(tag, atag) ==
    IF tag /= NoTag /\ atag /= tag THEN "outofsync"
    ELSE IF tag /= NoTag THEN "attag"
    ELSE "notag"
StatusKinds == {"outofsync", "attag", "notag"}

\* the idempotency guard of submodule_sparse_checkout: os.path.isfile(gitsparse)
AlreadyInitializedByDotGit(f) == f.dotgit = "dir"
AlreadyInitialized(f) == f.gitsparse

\* ------------------------------------------------------------ call stack
Frame(man, pc, rl) == [man |-> man, idx |-> 1, pc |-> pc, rl |-> rl]
Top == stack[Len(stack)]
InLoop == Top.idx <= Len(Sections(Top.man))
CurReversed == Sections(Top.man)[Len(Sections(Top.man)) + 1 - Top.idx]
Cur == Sections(Top.man)[Top.idx]
Goto(pc) == [stack EXCEPT ![Len(stack)].pc = pc]
LoopPc(act) == IF act = "install" THEN "loop" ELSE act
NextIterationSameSection(stk) ==
    [stk EXCEPT ![Len(stk)].pc = LoopPc(action)]
NextIteration(stk) ==
    [stk EXCEPT ![Len(stk)].idx = @ + 1, ![Len(stk)].pc = LoopPc(action)]

\* An exception leaves every frame: no function of the file catches one.
RaiseCaughtInLoop(stk) == NextIteration(stk)
Raise(stk) == <<>>

Line(kind, c, atag) == [line |-> kind, comp |-> c, atag |-> atag]
Say(kind, c) == Append(out, Line(kind, c, ""))

\* The run fails while component c is processed, having invoked newOps.
Fail(c, kind, newOps) ==
    /\ stack' = Raise(stack)
    /\ outcome' = IF Raise(stack) = <<>> THEN "failed" ELSE outcome
    /\ failedAt' = IF failedAt = 0 THEN c ELSE failedAt
    /\ failKind' = IF failedAt = 0 THEN kind ELSE failKind
    /\ ops' = [ops EXCEPT ![c] = @ \cup newOps]

Running == outcome = "running" /\ stack /= <<>>
At(pc) == Running /\ Top.pc = pc /\ InLoop

Init ==
    /\ esmrequired \in [Comps -> Tokens]
    /\ esmsparse \in [Comps -> BOOLEAN]
    /\ esmtag \in [Comps -> Tags]
    /\ esmtag[1] = "v1" /\ esmtag[3] = "v1"
    /\ manifestState = [m \in ManifestFiles |-> "unread"]
    /\ pinned = "unknown"
    /\ hasGitAttr = "unknown"
    /\ fs = [c \in Comps |-> Fresh]
    /\ rootNewbranch = FALSE
    /\ rootHead = "main"
    /\ runs = 0
    /\ faults = 0
    /\ flags = [status |-> FALSE, update |-> FALSE]
    /\ action = "install"
    /\ optional = FALSE
    /\ stack = <<>>
    /\ outcome = "idle"
    /\ ops = [c \in Comps |-> NoOps]
    /\ strategy = [c \in Comps |-> NoStrategy]
    /\ out = <<>>
    /\ failedAt = 0
    /\ failKind = "none"
    /\ visited = {}
    /\ sparseDone = {}
    /\ doneAtStart = {}

\* ------------------------------------------------------------------ steps
staticVars == <<esmrequired, esmsparse, esmtag>>
countVars == <<runs, flags, action, optional, doneAtStart, manifestState>>

\* A step of the run that does not raise.
Proceed(c, stk, newOps, lines) ==
    /\ stack' = stk
    /\ ops' = [ops EXCEPT ![c] = @ \cup newOps]
    /\ out' = lines
    /\ UNCHANGED <<outcome, failedAt, failKind>>

\* GitModules(...): the manifest file man is read with result res.  The
\* file does not change between reads; a bad one counts as a fault.
ReadManifest(man, res) ==
    /\ manifestState[man] \in {"unread", res}
    /\ manifestState' = [manifestState EXCEPT ![man] = res]
    /\ IF res = "bad" /\ manifestState[man] = "unread"
       THEN faults < MaxFaults /\ faults' = faults + 1
       ELSE UNCHANGED faults

\* _main_func: the function the if/elif chain calls, or the fatal error
MainDispatch(act) ==
    CASE act = "update" -> "update"
      [] act = "install" -> "loop"
      [] act = "status" -> "status"
      [] OTHER -> "unrecognized"

\* _main_func: the call stack once the root manifest is read with result
\* res; the constructor raises before the dispatch
MainStackErrorIgnored(act, opt, res) ==
    <<Frame(RootManifest, MainDispatch(act), EsmrequiredArg(opt))>>
MainStack(act, opt, res) ==
    IF res = "bad" \/ MainDispatch(act) = "unrecognized"
    THEN <<>>
    ELSE <<Frame(RootManifest, MainDispatch(act), EsmrequiredArg(opt))>>

\* _main_func: resolve the action, read the root manifest, dispatch
StartRun(status, update, opt) ==
    /\ outcome /= "running"
    /\ runs < MaxRuns
    /\ runs' = runs + 1
    /\ flags' = [status |-> status, update |-> update]
    /\ action' = ResolveAction(status, update)
    /\ optional' = opt
    /\ \E res \in {"ok", "bad"} :
          /\ ReadManifest(RootManifest, res)
          /\ stack' = MainStack(ResolveAction(status, update), opt, res)
          /\ outcome' = IF MainStack(ResolveAction(status, update), opt, res)
                           = <<>>
                        THEN "failed" ELSE "running"
          /\ failKind' = IF res = "bad" THEN "manifest"
                         ELSE IF MainDispatch(ResolveAction(status, update))
                                   = "unrecognized"
                              THEN "unrecognized" ELSE "none"
    /\ ops' = [c \in Comps |-> NoOps]
    /\ strategy' = [c \in Comps |-> NoStrategy]
    /\ out' = <<>>
    /\ failedAt' = 0
    /\ visited' = {}
    /\ doneAtStart' = sparseDone
    /\ UNCHANGED <<staticVars, pinned, hasGitAttr, diskVars, sparseDone>>

\* the for loop of a manifest is exhausted: the function returns
Return ==
    /\ Running
    /\ Top.pc \in {"loop", "update", "status"}
    /\ ~InLoop
    /\ stack' = SubSeq(stack, 1, Len(stack) - 1)
    /\ outcome' = IF Len(stack) = 1 THEN "ok" ELSE outcome
    /\ UNCHANGED <<staticVars, pinned, hasGitAttr, diskVars, countVars, faults,
                   ops, strategy, out, failedAt, failKind, visited, sparseDone>>

\* submodules_install: one iteration up to the call of a strategy
InstallGate ==
    /\ At("loop")
    /\ action = "install"
    /\ LET c == Cur IN
        /\ visited' = visited \cup {c}
        /\ IF ~Accepted(esmrequired[c], Top.rl)
           THEN /\ stack' = NextIteration(stack)
                /\ out' = IF SkipNotice(esmrequired[c]) THEN Say("skip", c) ELSE out
                /\ UNCHANGED strategy
           ELSE /\ strategy' = [strategy EXCEPT
                                  ![c] = @ \cup {SelectStrategy(esmsparse[c])}]
                /\ stack' = Goto(IF SelectStrategy(esmsparse[c]) = "sparse"
                                 THEN "sp_mkdir" ELSE "fc_update")
                /\ UNCHANGED out
    /\ UNCHANGED <<staticVars, pinned, hasGitAttr, diskVars, countVars, faults,
                   outcome, ops, failedAt, failKind, sparseDone>>

\* ---- submodule_sparse_checkout, one action per statement group
\* the statement group that follows a group which neither returns nor raises
SparseNextFetchEarly(pc) ==
    CASE pc = "sp_mkdir" -> "sp_guard"
      [] pc = "sp_guard" -> "sp_init"
      [] pc = "sp_init" -> "sp_remote"
      [] pc = "sp_remote" -> "sp_fetch"
      [] pc = "sp_fetch" -> "sp_move"
      [] pc = "sp_move" -> "sp_copy"
      [] pc = "sp_copy" -> "sp_pointer"
      [] pc = "sp_pointer" -> "sp_checkout"
SparseNext(pc) ==
    CASE pc = "sp_mkdir" -> "sp_guard"
      [] pc = "sp_guard" -> "sp_init"
      [] pc = "sp_init" -> "sp_remote"
      [] pc = "sp_remote" -> "sp_move"
      [] pc = "sp_move" -> "sp_copy"
      [] pc = "sp_copy" -> "sp_pointer"
      [] pc = "sp_pointer" -> "sp_fetch"
      [] pc = "sp_fetch" -> "sp_checkout"

sparseFrame == <<staticVars, pinned, hasGitAttr, rootNewbranch, rootHead,
                 countVars, faults, strategy, visited>>

\* os.makedirs(path) unless it is a directory: path as the manifest gives
\* it, resolved against the working directory
SpMkdir ==
    /\ At("sp_mkdir")
    /\ fs' = [fs EXCEPT ![Cur].dir = TRUE, ![Cur].base = WorkDir]
    /\ Proceed(Cur, Goto(SparseNext("sp_mkdir")), NoOps, out)
    /\ UNCHANGED <<sparseFrame, sparseDone>>

\* rev-parse --show-toplevel, then the test of the sparse-checkout file
SpGuard ==
    /\ At("sp_guard")
    /\ IF AlreadyInitialized(fs[Cur])
       THEN Proceed(Cur, NextIteration(stack), {Op("rev-parse", 0)},
                    Say("already", Cur))
       ELSE Proceed(Cur, Goto(SparseNext("sp_guard")), {Op("rev-parse", 0)}, out)
    /\ UNCHANGED <<sparseFrame, fs, sparseDone>>

\* GitInterface(<toplevel>/<path>) creates a repository where there is
\* none; core.sparseCheckout is set in it
GitInterfaceInit(f) ==
    IF f.dotgit = "none"
    THEN [f EXCEPT !.dotgit = "dir", !.wtOrigin = FALSE, !.fetched = FALSE,
                   !.head = "none"]
    ELSE f

SpInit ==
    /\ At("sp_init")
    /\ fs' = [fs EXCEPT ![Cur] = GitInterfaceInit(@)]
    /\ Proceed(Cur, Goto(SparseNext("sp_init")), {Op("config", Cur)}, out)
    /\ UNCHANGED <<sparseFrame, sparseDone>>

\* the metadata the repository at <path> uses
HasOrigin(f) == IF f.dotgit = "dir" THEN f.wtOrigin ELSE f.stOrigin

\* remote add origin <url>: git refuses a second remote of that name
SpRemote ==
    /\ At("sp_remote")
    /\ IF HasOrigin(fs[Cur])
       THEN /\ Fail(Cur, "vcs", {Op("remote add", Cur)})
            /\ UNCHANGED <<fs, out>>
       ELSE /\ fs' = [fs EXCEPT ![Cur] =
                        IF @.dotgit = "dir" THEN [@ EXCEPT !.wtOrigin = TRUE]
                        ELSE [@ EXCEPT !.stOrigin = TRUE]]
            /\ Proceed(Cur, Goto(SparseNext("sp_remote")), {Op("remote add", Cur)}, out)
    /\ UNCHANGED <<sparseFrame, sparseDone>>

\* shutil.move(<path>/.git, <toplevel>/.git/modules/<name>): a rename when
\* the target is free, a move INTO the target when it is a directory, an
\* error when the target already holds a .git
SpMove ==
    /\ At("sp_move")
    /\ LET f == fs[Cur] IN
        IF f.dotgit = "none" \/ f.store = "nested"
        THEN /\ Fail(Cur, "python", NoOps)
             /\ UNCHANGED <<fs, out>>
        ELSE /\ fs' = [fs EXCEPT ![Cur] =
                        IF f.store = "none"
                        THEN [f EXCEPT !.store = "meta", !.stOrigin = f.wtOrigin,
                                       !.dotgit = "none", !.wtOrigin = FALSE]
                        ELSE [f EXCEPT !.store = "nested",
                                       !.dotgit = "none", !.wtOrigin = FALSE]]
             /\ Proceed(Cur, Goto(SparseNext("sp_move")), NoOps, out)
    /\ UNCHANGED <<sparseFrame, sparseDone>>

\* shutil.copy(<path>/<sparsefile>, gitsparse)
SpCopy ==
    /\ At("sp_copy")
    /\ fs' = [fs EXCEPT ![Cur].gitsparse = TRUE]
    /\ Proceed(Cur, Goto(SparseNext("sp_copy")), NoOps, out)
    /\ UNCHANGED <<sparseFrame, sparseDone>>

\* <path>/.git is written as the file "gitdir: <relative path of the entry>"
SpPointer ==
    /\ At("sp_pointer")
    /\ fs' = [fs EXCEPT ![Cur].dotgit = "file"]
    /\ Proceed(Cur, Goto(SparseNext("sp_pointer")), NoOps, out)
    /\ UNCHANGED <<sparseFrame, sparseDone>>

\* fetch --depth=1 origin --tags
SpFetch ==
    /\ At("sp_fetch")
    /\ IF ~HasOrigin(fs[Cur])
       THEN /\ Fail(Cur, "vcs", {Op("fetch", Cur)})
            /\ UNCHANGED <<fs, out>>
       ELSE /\ fs' = [fs EXCEPT ![Cur].fetched = TRUE]
            /\ Proceed(Cur, Goto(SparseNext("sp_fetch")), {Op("fetch", Cur)}, out)
    /\ UNCHANGED <<sparseFrame, sparseDone>>

\* checkout <tag>, then the success line
SpCheckout ==
    /\ At("sp_checkout")
    /\ IF esmtag[Cur] = NoTag \/ ~fs[Cur].fetched
       THEN /\ Fail(Cur, "vcs", {Op("checkout", Cur)})
            /\ UNCHANGED <<fs, out, sparseDone>>
       ELSE /\ fs' = [fs EXCEPT ![Cur].head = esmtag[Cur]]
            /\ sparseDone' = sparseDone \cup {Cur}
            /\ Proceed(Cur, NextIteration(stack), {Op("checkout", Cur)},
                       Say("success", Cur))
    /\ UNCHANGED sparseFrame

\* ---- submodule_checkout
\* the tree `git submodule update --init <path>` leaves when it clones
Populated(f, desc, root) ==
    [f EXCEPT !.dir = TRUE, !.dotgit = "file", !.wtOrigin = FALSE,
              !.store = "meta", !.stOrigin = TRUE, !.fetched = TRUE,
              !.head = desc, !.base = root]

\* git submodule update --init <path> in the containing repository.  It
\* checks out the commit that repository records; where <path> is not
\* recorded as a submodule it can exit 0 and populate nothing.
FcUpdate ==
    /\ At("fc_update")
    /\ \/ /\ \E desc \in Descriptions :
                /\ pinned \in {"unknown", desc}
                /\ pinned' = desc
                /\ fs' = [fs EXCEPT ![Cur] =
                                Populated(@, desc, RootDir(Container(Cur)))]
          /\ UNCHANGED faults
       \/ /\ faults < MaxFaults
          /\ fs[Cur].dotgit = "none"
          /\ faults' = faults + 1
          /\ UNCHANGED <<fs, pinned>>
    /\ Proceed(Cur, Goto("fc_recurse"), {Op("submodule update", Container(Cur))},
               out)
    /\ UNCHANGED <<staticVars, hasGitAttr, rootNewbranch, rootHead, countVars,
                   strategy, visited, sparseDone>>

\* a .gitmodules in the new tree: the notice is printed, the manifest is
\* read, and it is installed with ("I:T")
FcRecurse ==
    /\ At("fc_recurse")
    /\ IF HasManifest(Cur) /\ fs[Cur].head /= "none"
       THEN \E res \in {"ok", "bad"} :
              /\ ReadManifest(Cur, res)
              /\ IF res = "ok"
                 THEN Proceed(Cur,
                              Append(Goto("fc_verify"),
                                     Frame(Cur, "loop", NestedRequired)),
                              NoOps, Say("recursive", Cur))
                 ELSE /\ Fail(Cur, "manifest", NoOps)
                      /\ out' = Say("recursive", Cur)
       ELSE /\ Proceed(Cur, Goto("fc_verify"), NoOps, out)
            /\ UNCHANGED <<manifestState, faults>>
    /\ UNCHANGED <<staticVars, pinned, hasGitAttr, diskVars, runs, flags, action,
                   optional, doneAtStart, strategy, visited, sparseDone>>

\* the marker <root>/<path>/.git decides between success line and fatal error
VerifiedUnchecked(f) == TRUE
Verified(f) == f.dotgit /= "none"

FcVerify ==
    /\ At("fc_verify")
    /\ IF Verified(fs[Cur])
       THEN Proceed(Cur, NextIteration(stack), NoOps, Say("success", Cur))
       ELSE /\ Fail(Cur, "verify", NoOps)
            /\ out' = Say("fatal", Cur)
    /\ UNCHANGED <<staticVars, pinned, hasGitAttr, diskVars, countVars, faults,
                   strategy, visited, sparseDone>>

\* ---- submodules_update: one iteration.  Every git call is made through
\* GitInterface(root_dir): it acts on the top-level repository (0).
\* os.path.exists(<path>/.git): a directory or a pointer file
HasMetadataUnchecked(f) == TRUE
HasMetadata(f) == f.dotgit /= "none"

UpdateStep ==
    /\ At("update")
    /\ action = "update"
    /\ LET c == Cur IN
        /\ visited' = visited \cup {c}
        /\ IF ~HasMetadata(fs[c])
           THEN /\ Proceed(c, NextIteration(stack), NoOps, out)
                /\ UNCHANGED <<rootNewbranch, rootHead>>
           ELSE \/ \* ls-remote --get-url prints the manifest url
                   /\ Proceed(c, NextIteration(stack), {Op("ls-remote", 0)}, out)
                   /\ UNCHANGED <<rootNewbranch, rootHead>>
                \/ \* another url, and the remote newbranch is there already
                   /\ rootNewbranch
                   /\ Fail(c, "vcs", {Op("ls-remote", 0), Op("remote add", 0)})
                   /\ UNCHANGED <<rootNewbranch, rootHead, out>>
                \/ \* another url: remote add newbranch, checkout esmtag
                   /\ ~rootNewbranch
                   /\ rootNewbranch' = TRUE
                   /\ \/ /\ esmtag[c] /= NoTag
                         /\ rootHead' = esmtag[c]
                         /\ Proceed(c, NextIteration(stack),
                                    {Op("ls-remote", 0), Op("remote add", 0),
                                     Op("checkout", 0)}, out)
                      \/ \* the top-level repository has no such revision
                         /\ Fail(c, "vcs",
                                 {Op("ls-remote", 0), Op("remote add", 0),
                                  Op("checkout", 0)})
                         /\ UNCHANGED <<rootHead, out>>
    /\ UNCHANGED <<staticVars, pinned, hasGitAttr, fs, countVars, faults,
                   strategy, sparseDone>>

\* ---- submodules_status: one iteration
\* The declared tag is read with gitmodules.git(name, "esmtag"), every other
\* key with gitmodules.get.  The reader class is imported from
\* modules.gitmodules; a section reader that offers get and sections has no
\* attribute git, one that aliases it answers like get.
GitAttr == {"yes", "no"}
StatusStep ==
    /\ At("status")
    /\ action = "status"
    /\ LET c == Cur IN
        /\ visited' = visited \cup {c}
        /\ \/ \* gitmodules.git(name, "esmtag"): no such attribute
              /\ "no" \in GitAttr
              /\ hasGitAttr \in {"unknown", "no"}
              /\ hasGitAttr' = "no"
              /\ Fail(c, "attribute", NoOps)
              /\ UNCHANGED <<fs, out>>
           \/ /\ "yes" \in GitAttr
              /\ hasGitAttr \in {"unknown", "yes"}
              /\ hasGitAttr' = "yes"
              /\ IF ~fs[c].dir
                 THEN \* pushd(path): no such directory
                      /\ Fail(c, "python", NoOps)
                      /\ UNCHANGED <<fs, out>>
                 ELSE /\ fs' = [fs EXCEPT ![c] = GitInterfaceInit(@)]
                      /\ IF fs[c].dotgit = "none" \/ fs[c].head = "none"
                         THEN \* describe: nothing to describe
                              /\ Fail(c, "vcs", {Op("describe", c)})
                              /\ UNCHANGED out
                         ELSE Proceed(c, NextIteration(stack),
                                      {Op("describe", c)},
                                      Append(out, Line(StatusLine(esmtag[c],
                                                                  fs[c].head),
                                                       c, fs[c].head)))
    /\ UNCHANGED <<staticVars, pinned, rootNewbranch, rootHead, countVars, faults,
                   strategy, sparseDone>>

\* ---- the environment: the run is interrupted before the statement it is
\* at, or the git command of that statement exits nonzero
OpAt(pc, c) ==
    CASE pc = "sp_guard" -> {Op("rev-parse", 0)}
      [] pc = "sp_remote" -> {Op("remote add", c)}
      [] pc = "sp_fetch" -> {Op("fetch", c)}
      [] pc = "sp_checkout" -> {Op("checkout", c)}
      [] pc = "fc_update" -> {Op("submodule update", Container(c))}
      [] pc = "update" -> {Op("ls-remote", 0)}
      [] pc = "status" -> {Op("describe", c)}
      [] OTHER -> NoOps
FaultPcs == {"sp_mkdir", "sp_guard", "sp_init", "sp_remote", "sp_move", "sp_copy",
             "sp_pointer", "sp_fetch", "sp_checkout", "fc_update", "update",
             "status"}

Fault ==
    /\ Running
    /\ InLoop
    /\ Top.pc \in FaultPcs
    /\ Top.pc = "update" => HasMetadata(fs[Cur])
    /\ Top.pc = "status" => hasGitAttr = "yes" /\ fs[Cur].dir
    /\ faults < MaxFaults
    /\ faults' = faults + 1
    /\ Fail(Cur, "fault", OpAt(Top.pc, Cur))
    /\ visited' = visited \cup {Cur}
    /\ UNCHANGED <<staticVars, pinned, hasGitAttr, diskVars, countVars, strategy,
                   out, sparseDone>>

Next ==
    \/ \E status, update, opt \in BOOLEAN :
         /\ opt => ResolveAction(status, update) = "install"
         /\ StartRun(status, update, opt)
    \/ Return
    \/ InstallGate
    \/ SpMkdir
    \/ SpGuard
    \/ SpInit
    \/ SpRemote
    \/ SpMove
    \/ SpCopy
    \/ SpPointer
    \/ SpFetch
    \/ SpCheckout
    \/ FcUpdate
    \/ FcRecurse
    \/ FcVerify
    \/ UpdateStep
    \/ StatusStep
    \/ Fault

Spec == Init /\ [][Next]_vars

\* The statements of a run.  The program is one thread of blocking calls:
\* while a run is under way its next statement is eventually executed.
Step ==
    \/ Return
    \/ InstallGate
    \/ SpMkdir
    \/ SpGuard
    \/ SpInit
    \/ SpRemote
    \/ SpMove
    \/ SpCopy
    \/ SpPointer
    \/ SpFetch
    \/ SpCheckout
    \/ FcUpdate
    \/ FcRecurse
    \/ FcVerify
    \/ UpdateStep
    \/ StatusStep
FairSpec == Spec /\ WF_vars(Step)

\* ================================================================ claims
Printed(kind, c) == \E i \in DOMAIN out : out[i].line = kind /\ out[i].comp = c
RootComps == {Sections(RootManifest)[i] : i \in DOMAIN Sections(RootManifest)}
InProgress(c) == Running /\ InLoop /\ Cur = c
\* the iteration of c has begun and has ended without an exception
Finished(c) == c \in visited /\ ~InProgress(c) /\ failedAt /= c
InstallRun == action = "install" /\ outcome /= "idle"
\* every component of the root manifest has a checkout at its path
AllCheckedOut ==
    \A c \in RootComps : fs[c].dotgit /= "none" /\ fs[c].head /= "none"

\* C1: a component whose sparse checkout ran to completion in an earlier
\* run is a no-op for every later install run: only the top-level query is
\* made for it (no remote add, fetch or checkout), the code raises nothing
\* for it, the strategy (when the run accepts the component) ends with the
\* "already initialized" notice, and its working tree, pointer and store
\* entry stay as they were.
SparseInstallIdempotent ==
    /\ [](InstallRun =>
            \A c \in doneAtStart :
                /\ ops[c] \subseteq {Op("rev-parse", 0)}
                /\ strategy[c] \subseteq {"sparse"}
                /\ failedAt = c => failKind = "fault"
                /\ ~Printed("success", c)
                /\ Finished(c) /\ "sparse" \in strategy[c] => Printed("already", c))
    /\ [][InstallRun /\ runs' = runs =>
            \A c \in doneAtStart : fs'[c] = fs[c]]_vars
SecondRunFoundSparseFile ==
    /\ InstallRun
    /\ \E c \in doneAtStart :
          /\ Printed("already", c)
          /\ fs[c].gitsparse /\ fs[c].dotgit = "file" /\ fs[c].head = esmtag[c]

\* C2 (as claimed): whatever interrupted an earlier run, an install run
\* that returns without error has left every component it handled with the
\* sparse strategy fetched and checked out at its declared revision.
InterruptedInstallResumable ==
    (action = "install" /\ outcome = "ok") =>
        \A c \in Comps :
            "sparse" \in strategy[c] =>
                fs[c].fetched /\ fs[c].head = esmtag[c]

\* C3: at the root manifest a T:F component is skipped with a notice and
\* gets no strategy and no VCS operation when --optional is not given, and
\* gets a checkout strategy when --optional is given.
OptionalGatingAtRoot ==
    InstallRun =>
        \A c \in RootComps :
            esmrequired[c] = TF =>
                /\ ~optional =>
                      /\ strategy[c] = NoStrategy
                      /\ ops[c] = NoOps
                      /\ c \in visited => Printed("skip", c)
                /\ optional /\ c \in visited =>
                      /\ strategy[c] \in {{"sparse"}, {"full"}}
                      /\ ~Printed("skip", c)
OptionalSkippedThenInstalled ==
    /\ InstallRun /\ optional /\ runs = 2
    /\ \E c \in RootComps :
          /\ esmrequired[c] = TF
          /\ Finished(c)
          /\ Printed("success", c)
          /\ ops[c] /= NoOps

\* the components declared in nested manifests
NestedComps == {c \in Comps : Container(c) /= RootManifest}
\* C4 (as claimed): in a nested manifest a component gets a checkout
\* strategy if and only if its esmrequired token is exactly I:T.
NestedOnlyInternalRequired ==
    InstallRun =>
        \A c \in NestedComps :
            /\ esmrequired[c] /= IT => strategy[c] = NoStrategy /\ ops[c] = NoOps
            /\ c \in visited /\ esmrequired[c] = IT => strategy[c] /= NoStrategy

\* C5 (as claimed): after an update that returned without error every
\* declared component with version-control metadata at its path is checked
\* out at its esmtag, and the operations made for it ran on its repository.
UpdateReachesDeclaredRevision ==
    (action = "update" /\ outcome = "ok") =>
        \A c \in RootComps :
            fs[c].dotgit /= "none" /\ esmtag[c] /= NoTag =>
                /\ fs[c].head = esmtag[c]
                /\ \A o \in ops[c] : o.repo = c

\* the components the root manifest declares after c
Later(c) ==
    {Sections(RootManifest)[j] : j \in
        {k \in DOMAIN Sections(RootManifest) :
            \E i \in DOMAIN Sections(RootManifest) :
                i < k /\ Sections(RootManifest)[i] = c}}
\* C6 (as claimed): in a status or update run that has ended, a VCS
\* operation failing on one component leaves no later sibling unprocessed.
SiblingsSurviveFailure ==
    (/\ action \in {"status", "update"}
     /\ outcome \in {"ok", "failed"}
     /\ AllCheckedOut
     /\ failKind \in {"vcs", "fault"}) =>
        \A c \in Later(failedAt) : c \in visited

\* C7: in an install run the first failure ends the run: the outcome is a
\* failure, no frame is left to run, the components not reached get no
\* strategy and no VCS operation, and nothing is invoked or written after it.
InstallAbortsOnFirstFailure ==
    /\ []((action = "install" /\ failedAt /= 0) =>
            /\ outcome = "failed"
            /\ stack = <<>>
            /\ \A c \in Comps \ visited :
                  strategy[c] = NoStrategy /\ ops[c] = NoOps)
    /\ [][(action = "install" /\ failedAt /= 0 /\ runs' = runs) =>
            /\ ops' = ops /\ strategy' = strategy
            /\ visited' = visited /\ out' = out /\ fs' = fs]_vars
NestedFailureStopsRootSibling ==
    /\ action = "install"
    /\ failedAt = 3
    /\ failKind \in {"vcs", "fault", "verify"}
    /\ 2 \notin visited
    /\ Accepted(esmrequired[2], EsmrequiredArg(optional))
    /\ outcome = "failed"

\* C8 (as claimed): status on a tree whose components are all checked out
\* runs to completion and prints one report line per component, in order.
StatusReportsEveryComponent ==
    (/\ action = "status"
     /\ outcome \in {"ok", "failed"}
     /\ failKind /= "fault"
     /\ AllCheckedOut) =>
        /\ outcome = "ok"
        /\ Len(out) = Len(Sections(RootManifest))
        /\ \A i \in DOMAIN out :
              out[i].comp = Sections(RootManifest)[i] /\ out[i].line \in StatusKinds

\* C9: every report line of status is determined by (declared tag, described
\* tag): equal gives "at tag", a declared tag that differs gives "out of
\* sync", no declared tag gives "no tag defined" whatever was described; a
\* component gets one line.
StatusClassification ==
    action = "status" =>
        /\ \A i \in DOMAIN out :
              LET tag == esmtag[out[i].comp]
                  atag == out[i].atag
              IN /\ atag \in Descriptions
                 /\ (tag /= NoTag /\ atag = tag) => out[i].line = "attag"
                 /\ (tag /= NoTag /\ atag /= tag) => out[i].line = "outofsync"
                 /\ tag = NoTag => out[i].line = "notag"
        /\ \A i, j \in DOMAIN out : out[i].comp = out[j].comp => i = j
        /\ \A c \in RootComps : Finished(c) => \E i \in DOMAIN out : out[i].comp = c
StatusLinesOfBothKinds ==
    /\ action = "status"
    /\ Printed("outofsync", 1)
    /\ Printed("attag", 2) \/ Printed("notag", 2)

\* c passes the gate of the manifest that declares it
AcceptedAtLevel(c) ==
    Accepted(esmrequired[c],
             IF Container(c) = RootManifest THEN EsmrequiredArg(optional)
             ELSE NestedRequired)
\* the git commands only submodule_sparse_checkout issues
SparseOps == {"rev-parse", "config", "remote add", "fetch", "checkout"}
\* C10: the strategy of an accepted component is decided by esmsparse
\* alone: full and never sparse when it is unset, sparse and never full when
\* it is set, never both; a component without esmsparse never has a
\* sparse-checkout file in the metadata store.
StrategyGatedBySparse ==
    /\ \A c \in Comps : ~esmsparse[c] => ~fs[c].gitsparse
    /\ InstallRun =>
          \A c \in Comps :
              /\ strategy[c] \subseteq {IF esmsparse[c] THEN "sparse" ELSE "full"}
              /\ c \in visited /\ AcceptedAtLevel(c) => strategy[c] /= NoStrategy
              /\ ~esmsparse[c] => \A o \in ops[c] : o.op \notin SparseOps
              /\ esmsparse[c] => \A o \in ops[c] : o.op /= "submodule update"
BothStrategiesInOneRun ==
    /\ InstallRun
    /\ outcome = "ok"
    /\ \E c, d \in Comps :
          /\ esmsparse[c] /\ strategy[c] = {"sparse"} /\ Printed("success", c)
          /\ ~esmsparse[d] /\ strategy[d] = {"full"} /\ Printed("success", d)
          /\ fs[c].gitsparse /\ ~fs[d].gitsparse

\* C11: update never creates a checkout: a declared component without
\* version-control metadata at its path gets no VCS operation, no error and
\* no output line, and an update run changes nothing under any component's
\* path, so the checked-out components are the same after it as before.
UpdateNeverCreatesCheckout ==
    /\ [](action = "update" =>
            \A c \in Comps :
                fs[c].dotgit = "none" =>
                    /\ ops[c] = NoOps
                    /\ failedAt /= c
                    /\ \A i \in DOMAIN out : out[i].comp /= c)
    /\ [][action = "update" /\ runs' = runs => fs' = fs]_vars
UpdateSkippedMissingComponent ==
    /\ action = "update"
    /\ outcome = "ok"
    /\ \E c, d \in RootComps :
          /\ fs[c].dotgit = "none" /\ Finished(c)
          /\ fs[d].dotgit /= "none" /\ Finished(d) /\ ops[d] /= NoOps

\* C12 (as claimed): in a run that ended with a manifest error, of the
\* root manifest or of a nested one found during install, no checkout
\* strategy and no VCS operation was invoked for any component.
ManifestErrorBeforeAnyCheckout ==
    failKind = "manifest" =>
        \A c \in Comps : strategy[c] = NoStrategy /\ ops[c] = NoOps
\* C12 (amended): a manifest error ends the run.  For the root manifest it
\* comes before any strategy or VCS operation for any component.  For a
\* nested manifest it comes after the submodule update of the component
\* that holds it, and before any strategy or VCS operation for a component
\* of that manifest or for a component declared after the holder.
ManifestErrorBeforeItsComponents ==
    failKind = "manifest" =>
        /\ outcome = "failed"
        /\ stack = <<>>
        /\ failedAt = 0 =>
              /\ visited = {}
              /\ \A c \in Comps : strategy[c] = NoStrategy /\ ops[c] = NoOps
        /\ failedAt /= 0 =>
              /\ action = "install"
              /\ HasManifest(failedAt)
              /\ strategy[failedAt] = {"full"}
              /\ Op("submodule update", Container(failedAt)) \in ops[failedAt]
              /\ \A c \in Comps :
                    Container(c) = failedAt \/ c \in Later(failedAt) =>
                        /\ c \notin visited
                        /\ strategy[c] = NoStrategy
                        /\ ops[c] = NoOps
NestedManifestErrorAfterUpdate ==
    /\ failKind = "manifest"
    /\ failedAt = 1
    /\ manifestState[1] = "bad"
    /\ Printed("recursive", 1)
    /\ fs[1].head /= "none"

\* C13 (as claimed): a status run that reaches a declared component with no
\* checkout at its path ends there, in the failure of entering or describing
\* a path that holds no repository, and prints no "at tag" line for it.
StatusFailsAtMissingCheckout ==
    (/\ action = "status"
     /\ outcome \in {"ok", "failed"}
     /\ failKind \notin {"fault", "manifest"}) =>
        \A c \in RootComps :
            (/\ fs[c].head = "none"
             /\ \A d \in RootComps : c \in Later(d) => fs[d].head /= "none") =>
                /\ outcome = "failed"
                /\ failedAt = c
                /\ failKind \in {"python", "vcs"}
                /\ ~Printed("attag", c)

\* C14: the action is status when --status is given (with or without
\* --update), else update when --update is given, else install; it is one
\* of the three, so the dispatch never ends in the unrecognized-action
\* fatal error.
ActionResolution ==
    outcome /= "idle" =>
        /\ action = IF flags.status THEN "status"
                    ELSE IF flags.update THEN "update" ELSE "install"
        /\ action \in {"install", "update", "status"}
        /\ MainDispatch(action) /= "unrecognized"
        /\ failKind /= "unrecognized"
        /\ Running => stack[1].pc /= "unrecognized"
StatusWinsOverUpdate ==
    /\ flags.status /\ flags.update
    /\ action = "status"
    /\ visited /= {}
    /\ \E c \in RootComps : Op("describe", c) \in ops[c]

\* C15 (as claimed): whichever strategy installs it, at the root or in a
\* nested manifest, the working tree of a component is created under the
\* root of the repository that declares it.
MaterialisedUnderContainingRoot ==
    \A c \in Comps :
        (/\ fs[c].base /= "none"
         /\ c \in NestedComps => esmrequired[c] = IT) =>
            fs[c].base = RootDir(Container(c))

\* C16: when a sparse checkout reaches its fetch, the metadata directory is
\* already in the store entry of the component, the sparse-checkout file is
\* already in that entry, and <path>/.git is already the pointer file; the
\* fetch comes before the checkout, and the success line is printed only
\* once the checkout has been made.
SparseStepOrder ==
    InstallRun =>
        \A c \in Comps :
            /\ ((InProgress(c) /\ Top.pc = "sp_fetch")
                    \/ Op("fetch", c) \in ops[c]) =>
                  /\ fs[c].store /= "none"
                  /\ fs[c].gitsparse
                  /\ fs[c].dotgit = "file"
            /\ ((InProgress(c) /\ Top.pc = "sp_checkout")
                    \/ Op("checkout", c) \in ops[c]) =>
                  /\ Op("fetch", c) \in ops[c]
                  /\ fs[c].fetched
            /\ (Printed("success", c) /\ "sparse" \in strategy[c]) =>
                  /\ Op("checkout", c) \in ops[c]
                  /\ fs[c].head = esmtag[c]
SparseCheckoutCompleted ==
    /\ InstallRun
    /\ \E c \in Comps :
          /\ "sparse" \in strategy[c]
          /\ Printed("success", c)
          /\ Op("fetch", c) \in ops[c]
          /\ Op("checkout", c) \in ops[c]
          /\ fs[c].dotgit = "file"

\* C17: the full strategy prints its success line for a component only if
\* <root>/<path>/.git exists once the submodule update and any nested
\* install are over; when it does not exist the run ends in the fatal error
\* naming the component and the success line is not printed.
FullCheckoutVerified ==
    /\ [](InstallRun =>
            \A c \in Comps :
                "full" \in strategy[c] =>
                    /\ Printed("success", c) =>
                          /\ fs[c].dotgit /= "none"
                          /\ Op("submodule update", Container(c)) \in ops[c]
                          /\ ~Printed("fatal", c)
                    /\ Printed("fatal", c) =>
                          /\ fs[c].dotgit = "none"
                          /\ outcome = "failed"
                          /\ failedAt = c
                          /\ failKind = "verify"
                    /\ failKind = "verify" /\ failedAt = c => Printed("fatal", c))
    /\ [][(Running /\ InLoop /\ Top.pc = "fc_verify" /\ stack' /= stack) =>
              IF fs[Cur].dotgit = "none"
              THEN out' = Say("fatal", Cur) /\ outcome' = "failed"
              ELSE out' = Say("success", Cur) /\ outcome' = outcome]_vars
VerificationFailedWithoutMarker ==
    /\ InstallRun
    /\ \E c \in Comps :
          /\ "full" \in strategy[c]
          /\ Printed("fatal", c)
          /\ failKind = "verify"
          /\ Op("submodule update", Container(c)) \in ops[c]
          /\ fs[c].dotgit = "none"

\* the loop iteration of c is under way in some frame of the call stack
OnStack(c) ==
    \E k \in DOMAIN stack :
        /\ stack[k].idx <= Len(Sections(stack[k].man))
        /\ Sections(stack[k].man)[stack[k].idx] = c
Position(c) ==
    CHOOSE i \in DOMAIN Sections(Container(c)) : Sections(Container(c))[i] = c
\* c is declared before d in the manifest that declares both
Precedes(c, d) == Container(c) = Container(d) /\ Position(c) < Position(d)
\* c and the components of the manifest its checkout holds
Within(c) == {c} \cup {e \in Comps : HasManifest(c) /\ Container(e) = c}
Touched(c) == c \in visited \/ ops[c] /= NoOps \/ strategy[c] /= NoStrategy
\* C18: the components of a manifest are processed one at a time in the
\* order of its sections: when anything has been done for a component, the
\* iteration of every component declared before it, with the whole nested
\* install inside that iteration, has begun and is over; a step operates on
\* the one component the innermost loop is at, and an iteration that is
\* over is never entered again in the run.
SequentialDeclarationOrder ==
    /\ [](\A c, d \in Comps :
            /\ (Precedes(c, d) /\ Touched(d)) =>
                  /\ c \in visited
                  /\ \A e \in Within(c) : ~OnStack(e)
            /\ (Touched(d) /\ d \in NestedComps) =>
                  Container(d) \in visited /\ "full" \in strategy[Container(d)])
    /\ [][runs' = runs =>
            \A c \in Comps :
                /\ (ops'[c] /= ops[c] \/ strategy'[c] /= strategy[c]
                        \/ fs'[c] /= fs[c] \/ (c \in visited' /\ c \notin visited)) =>
                      Running /\ InLoop /\ Cur = c
                /\ (c \in visited /\ ~OnStack(c)) => ~OnStack(c)']_vars
AllThreeProcessedInOrder ==
    /\ InstallRun
    /\ outcome = "ok"
    /\ \A c \in Comps : ops[c] /= NoOps /\ c \in visited

\* the states an install run leaves a component in
Skipped(c) ==
    /\ ~AcceptedAtLevel(c)
    /\ strategy[c] = NoStrategy
    /\ ops[c] = NoOps
CheckedOutFull(c) ==
    /\ AcceptedAtLevel(c)
    /\ strategy[c] = {"full"}
    /\ Printed("success", c)
    /\ fs[c].dotgit /= "none"
\* the sparse strategy returned: after its checkout, or at its guard
CheckedOutSparse(c) ==
    /\ AcceptedAtLevel(c)
    /\ strategy[c] = {"sparse"}
    /\ fs[c].gitsparse
    /\ \/ Printed("success", c) /\ fs[c].head = esmtag[c]
       \/ Printed("already", c) /\ ~Printed("success", c)
\* the manifest that declares c is read in this run
Reached(c) ==
    \/ Container(c) = RootManifest
    \/ CheckedOutFull(Container(c)) /\ Printed("recursive", Container(c))
Times(kind, c) ==
    Cardinality({i \in DOMAIN out : out[i].line = kind /\ out[i].comp = c})
====
